---- MODULE Spec2Model ----
(***************************************************************************)
(* Model of rippyfish.py: IIIFImageDownloader.process_url and              *)
(* download_and_composite_image, with the ThreadPoolExecutor that fetches  *)
(* the tiles and the main thread that pastes them into the output image.   *)
(*                                                                         *)
(* A URL is the sequence of its path segments.  A python dict is a         *)
(* function whose DOMAIN is the set of its keys.  A raster is kept         *)
(* block-wise: it is cut at every coordinate where a tile region or a      *)
(* returned tile raster can begin or end, and the top-left pixel of a      *)
(* block stands for all the pixels of the block (every region the program  *)
(* reads or writes is a union of blocks, so all pixels of a block always   *)
(* have the same history).                                                 *)
(***************************************************************************)
EXTENDS Integers, Sequences, FiniteSets, TLC

(* ------------------------------ bounds -------------------------------- *)

\* the longest batch of manifests (tile_sources) that is explored
MaxImages == 2

\* --workers is explored from 0 to MaxWorkers, and at its default
MaxWorkers == 2

(* ------------------------- program constants -------------------------- *)

\* IIIFImageDownloader.__init__(max_workers=10), main(): --workers default
DefaultWorkers == 10

\* metadata.get('tiles', [{}])[0].get('width', 256)
DefaultTileSize == 256

\* width <= 2000 and height <= 2000
FullImageLimit == 2000

\* Image.new('RGB', (width, height), (255, 255, 255))
White == <<255, 255, 255>>

(* ------------------------------ inputs -------------------------------- *)

\* the i-th manifest a page lists (output of extract_openseadragon_sources)
InfoUrl(i) == <<"iiif", "img" \o ToString(i), "info.json">>

EmptyDict == [k \in {} |-> 0]

\* what the server can answer to the info.json request (besides an error)
Metadatas ==
  { [width |-> 1000, height |-> 1000],
    [width |-> 3000, height |-> 1000],
    [width |-> 2000, height |-> 2000, tiles |-> << [width |-> 1000] >>],
    [width |-> 2001, height |-> 1000, tiles |-> << [width |-> 1000] >>],
    [width |-> 1000, height |-> 2001,
       tiles |-> << [width |-> 2000], [width |-> 512] >>],
    [width |-> 1000, height |-> 1000, tiles |-> << >>],
    [height |-> 1000],
    [width |-> 0, height |-> 1000],
    [width |-> 2500, height |-> 2100, tiles |-> << [width |-> 0] >>],
    [width |-> 2500, height |-> 2100, tiles |-> << [width |-> 0 - 2000] >>] }

\* by how many pixels (in each direction) a raster returned for a region can
\* exceed the region that was requested; 0 is a server that conforms
RasterExcess == {0, 300}

(* --------------------------- python helpers --------------------------- *)

\* dict.get(key, default)
Get(d, key, default) == IF key \in DOMAIN d THEN d[key] ELSE default

Min(a, b) == IF a <= b THEN a ELSE b

\* math.ceil(a / b) for b # 0 (true division, then the ceiling)
Ceil(a, b) ==
  IF b > 0 THEN -((-a) \div b) ELSE -(a \div (-b))

\* range(n)
Range(n) == 0 .. (n - 1)

\* info_url.replace('/info.json', '')
BaseUrl(info_url) == SelectSeq(info_url, LAMBDA s : s # "info.json")

\* f"{base_url}/full/full/0/default.png"
FullUrl(base) == base \o <<"full", "full", "0", "default.png">>

\* f"{x},{y},{w},{h}"
Region(x, y, w, h) ==
  ToString(x) \o "," \o ToString(y) \o "," \o ToString(w) \o "," \o ToString(h)

\* f"{base_url}/{region}/full/0/default.jpg"
TileUrl(base, region) == base \o <<region, "full", "0", "default.jpg">>

\* one file name for every image of the batch
OutputFilenameFixed(i) == "image.png"

\* f"image_{idx:03d}.png"
OutputFilename(i) ==
  "image_" \o (IF i < 10 THEN "00" ELSE IF i < 100 THEN "0" ELSE "")
           \o ToString(i) \o ".png"

\* calculate_tile_grid with the quotients rounded down
calculate_tile_grid_floor(w, h, ts) == << w \div ts, h \div ts >>

\* calculate_tile_grid(width, height, tile_size)
calculate_tile_grid(w, h, ts) == << Ceil(w, ts), Ceil(h, ts) >>

(* ------------------------------ rasters ------------------------------- *)

\* the coordinates in 0..len-1 where a block of the raster begins
Cuts(len, ts) ==
  IF ts <= 0 THEN { c \in {0} : c < len }
  ELSE { c \in Range(len) : \E e \in RasterExcess \cup {0} :
                               c >= e /\ (c - e) % ts = 0 }

Blocks(w, h, ts) == Cuts(w, ts) \X Cuts(h, ts)

\* Image.new('RGB', (width, height), (255, 255, 255))
NewImage(w, h, ts) ==
  [size |-> <<w, h>>, px |-> [b \in Blocks(w, h, ts) |-> White]]

\* download_tile's return value None
None == [img |-> FALSE, src |-> 0, size |-> <<0, 0>>, intact |-> FALSE]

\* the raster Image.open returns for the response to request number src:
\* its pixel (dx, dy) has the colour <<src, dx, dy>>, so that the pixels of
\* all rasters differ.  Image.open only reads the header; intact tells
\* whether the pixel data can be decoded when the raster is first loaded.
Raster(src, rw, rh, ok) ==
  [img |-> TRUE, src |-> src, size |-> <<rw, rh>>, intact |-> ok]

\* Image.paste(im, (x, y)): the region written has the size of im, cut to
\* the bounds of the image that is written to
PasteBox(image, im, pos) ==
  { b \in DOMAIN image.px :
      /\ pos[1] <= b[1] /\ b[1] < pos[1] + im.size[1]
      /\ pos[2] <= b[2] /\ b[2] < pos[2] + im.size[2] }

Paste(image, im, pos) ==
  [image EXCEPT !.px =
     [b \in DOMAIN image.px |->
        IF b \in PasteBox(image, im, pos)
          THEN <<im.src, b[1] - pos[1], b[2] - pos[2]>>
          ELSE image.px[b]]]

VARIABLES
  max_workers,      \* self.max_workers
  tile_sources,     \* process_url: the manifests of the page
  idx,              \* process_url: the image being processed (from 1)
  pc,               \* where the main thread is
  requests,         \* the URLs requested so far for image idx, in order
  metadata,         \* download_and_composite_image: the info.json
  width, height, tile_size, tiles_info, base_url,
  num_tiles,        \* <<num_tiles_x, num_tiles_y>>
  ty, tx,           \* the counters of the grid loops
  tile_urls, tile_positions,
  tile_regions,     \* the <<x, y, w, h>> of each iteration of the grid loop
  output_image,
  futures,          \* per submitted task: its state and its result
  yielded,          \* the futures as_completed has handed to the loop
  tiles_downloaded, tiles_failed,
  files,            \* output_dir: file name -> size of the raster saved
  returned          \* what download_and_composite_image returned, per image

vars == << max_workers, tile_sources, idx, pc, requests, metadata, width,
           height, tile_size, tiles_info, base_url, num_tiles, ty, tx,
           tile_urls, tile_positions, tile_regions, output_image, futures,
           yielded, tiles_downloaded, tiles_failed, files, returned >>

image_vars == << metadata, width, height, tile_size, tiles_info, base_url,
                 num_tiles, ty, tx, tile_urls, tile_positions, tile_regions,
                 output_image, futures, yielded, tiles_downloaded,
                 tiles_failed >>

NoImage == [size |-> <<0, 0>>, px |-> EmptyDict]

\* the locals of download_and_composite_image before its first statement
FreshLocals ==
  /\ width' = 0 /\ height' = 0 /\ tile_size' = 0
  /\ tiles_info' = << >> /\ base_url' = << >>
  /\ num_tiles' = <<0, 0>> /\ ty' = 0 /\ tx' = 0
  /\ tile_urls' = << >> /\ tile_positions' = << >> /\ tile_regions' = << >>
  /\ output_image' = NoImage
  /\ futures' = << >> /\ yielded' = {}
  /\ tiles_downloaded' = 0 /\ tiles_failed' = 0

WorkerCounts == (0 .. MaxWorkers) \cup {DefaultWorkers}

Batches == { [i \in 1 .. n |-> InfoUrl(i)] : n \in 1 .. MaxImages }

\* process_url after the page was fetched and its tile sources extracted
Init ==
  /\ max_workers \in WorkerCounts
  /\ tile_sources \in Batches
  /\ idx = 0
  /\ pc = "loop"
  /\ requests = << >>
  /\ metadata = EmptyDict
  /\ width = 0 /\ height = 0 /\ tile_size = 0
  /\ tiles_info = << >> /\ base_url = << >>
  /\ num_tiles = <<0, 0>> /\ ty = 0 /\ tx = 0
  /\ tile_urls = << >> /\ tile_positions = << >> /\ tile_regions = << >>
  /\ output_image = NoImage
  /\ futures = << >> /\ yielded = {}
  /\ tiles_downloaded = 0 /\ tiles_failed = 0
  /\ files = EmptyDict
  /\ returned = << >>

\* a failure of download_and_composite_image that ends process_url
ReturnOrExit(v) ==
  /\ returned' = Append(returned, v)
  /\ pc' = IF v THEN "loop" ELSE "exited"

\* download_and_composite_image returns v: process_url goes on with its loop
Return(v) ==
  /\ returned' = Append(returned, v)
  /\ pc' = "loop"

(* ------------------- process_url, main thread ------------------------- *)

\* for idx, info_url in enumerate(tile_sources, 1): the call of
\* download_and_composite_image and its fetch_iiif_metadata(info_url)
FetchMetadata ==
  /\ pc = "loop"
  /\ idx < Len(tile_sources)
  /\ idx' = idx + 1
  /\ requests' = << tile_sources[idx + 1] >>
  /\ FreshLocals
  /\ \/ \* session.get, raise_for_status or json() raises
        /\ metadata' = EmptyDict
        /\ Return(FALSE)
     \/ \E md \in Metadatas :
          /\ metadata' = md
          /\ pc' = "decide"
          /\ UNCHANGED returned
  /\ UNCHANGED << max_workers, tile_sources, files >>

\* logger.info("Completed! ...") after the last image
Completed ==
  /\ pc = "loop"
  /\ idx = Len(tile_sources)
  /\ pc' = "completed"
  /\ UNCHANGED << max_workers, tile_sources, idx, requests, files, returned >>
  /\ UNCHANGED image_vars

\* tiles_info = metadata.get('tiles', []);
\* not tiles_info or (width <= 2000 and height <= 2000)
UseFullImage(md) ==
  \/ Get(md, "tiles", << >>) = << >>
  \/ (md.width <= FullImageLimit /\ md.height <= FullImageLimit)

\* the tile size taken from the last entry of 'tiles'
TileSizeOfLastEntry(md) ==
  LET tiles == Get(md, "tiles", << EmptyDict >>)
  IN  Get(tiles[Len(tiles)], "width", DefaultTileSize)

\* tile_size = metadata.get('tiles', [{}])[0].get('width', 256), for a
\* descriptor whose 'tiles' is not an empty list
TileSize(md) ==
  Get(Get(md, "tiles", << EmptyDict >>)[1], "width", DefaultTileSize)

\* the statements from metadata['width'] to the choice between the full
\* image and the tiles, and in the tiled case up to Image.new
Decide ==
  /\ pc = "decide"
  /\ IF \/ "width" \notin DOMAIN metadata        \* KeyError
        \/ "height" \notin DOMAIN metadata       \* KeyError
        \/ Get(metadata, "tiles", << EmptyDict >>) = << >>   \* IndexError
     THEN /\ Return(FALSE)
          /\ UNCHANGED image_vars
     ELSE LET ts == TileSize(metadata)
          IN
          /\ width' = metadata.width
          /\ height' = metadata.height
          /\ tile_size' = ts
          /\ base_url' = BaseUrl(tile_sources[idx])
          /\ tiles_info' = Get(metadata, "tiles", << >>)
          /\ UNCHANGED << metadata, ty, tx, tile_urls, tile_positions,
                          tile_regions, futures, yielded, tiles_downloaded,
                          tiles_failed >>
          /\ IF UseFullImage(metadata)
             THEN /\ pc' = "full"
                  /\ UNCHANGED << num_tiles, output_image, returned >>
             ELSE IF ts = 0                      \* ZeroDivisionError
             THEN /\ Return(FALSE)
                  /\ UNCHANGED << num_tiles, output_image >>
             ELSE /\ num_tiles' =
                       calculate_tile_grid(metadata.width, metadata.height, ts)
                  /\ output_image' =
                       NewImage(metadata.width, metadata.height, ts)
                  /\ pc' = "grid"
                  /\ UNCHANGED returned
  /\ UNCHANGED << max_workers, tile_sources, idx, requests, files >>

\* a save that writes no file
SaveNothing(fs, name, img) == fs

\* img.save(output_path, 'PNG'): the file holds a raster of the size of img
Save(fs, name, img) ==
  [f \in DOMAIN fs \cup {name} |-> IF f = name THEN img.size ELSE fs[f]]

\* the full image: session.get(full_url), Image.open, img.save
FetchFull ==
  /\ pc = "full"
  /\ requests' = Append(requests, FullUrl(base_url))
  /\ \/ \* the request fails, or the payload is no image
        /\ Return(FALSE)
        /\ UNCHANGED files
     \/ \* the pixel data cannot be decoded: img.save raises
        /\ Return(FALSE)
        /\ UNCHANGED files
     \/ \E e \in RasterExcess :
          /\ files' = Save(files, OutputFilename(idx),
                            Raster(0, width + e, height + e, TRUE))
          /\ Return(TRUE)
  /\ UNCHANGED << max_workers, tile_sources, idx >>
  /\ UNCHANGED image_vars

\* x = tx * tile_size;  y = ty * tile_size
TileOffset(t, ts) == t * ts

\* the region of an edge tile not clipped to the image
RegionExtentUnclipped(ts, len, off) == ts

\* w = min(tile_size, width - x);  h = min(tile_size, height - y)
RegionExtent(ts, len, off) == Min(ts, len - off)

\* one iteration of: for ty in range(num_tiles_y): for tx in range(num_tiles_x)
GridStep ==
  /\ pc = "grid"
  /\ ty < num_tiles[2] /\ tx < num_tiles[1]
  /\ LET x == TileOffset(tx, tile_size)
         y == TileOffset(ty, tile_size)
         w == RegionExtent(tile_size, width, x)
         h == RegionExtent(tile_size, height, y)
     IN
     /\ tile_urls' = Append(tile_urls, TileUrl(base_url, Region(x, y, w, h)))
     /\ tile_positions' = Append(tile_positions, <<x, y>>)
     /\ tile_regions' = Append(tile_regions, <<x, y, w, h>>)
  /\ IF tx + 1 < num_tiles[1]
       THEN tx' = tx + 1 /\ ty' = ty
       ELSE tx' = 0 /\ ty' = ty + 1
  /\ UNCHANGED << max_workers, tile_sources, idx, pc, requests, metadata,
                  width, height, tile_size, tiles_info, base_url, num_tiles,
                  output_image, futures, yielded, tiles_downloaded,
                  tiles_failed, files, returned >>

\* no iteration of the grid loops is left
GridDone == ~ (ty < num_tiles[2] /\ tx < num_tiles[1])

\* a future that was submitted and not picked up by a worker thread yet
Pending == [state |-> "pending", result |-> None]

\* with ThreadPoolExecutor(max_workers=self.max_workers) as executor:
\* executor.submit(self.download_tile, url) for every planned tile
Submit ==
  /\ pc = "grid"
  /\ GridDone
  /\ IF max_workers <= 0                    \* ValueError
       THEN /\ Return(FALSE)
            /\ UNCHANGED futures
       ELSE /\ futures' = [t \in 1 .. Len(tile_urls) |-> Pending]
            /\ pc' = "collect"
            /\ UNCHANGED returned
  /\ UNCHANGED << max_workers, tile_sources, idx, requests, metadata, width,
                  height, tile_size, tiles_info, base_url, num_tiles, ty, tx,
                  tile_urls, tile_positions, tile_regions, output_image,
                  yielded, tiles_downloaded, tiles_failed, files >>

(* ------------------------- the worker threads ------------------------- *)

Tasks == DOMAIN futures

InState(st) == { t \in Tasks : futures[t].state = st }

\* the tile fetches that are in flight
Running == InState("running")

\* the work queue of the executor is first in, first out
NextQueued == CHOOSE t \in InState("pending") :
                \A u \in InState("pending") : t <= u

\* an executor with one thread more than max_workers
WorkerFreeOneMore == Cardinality(Running) < max_workers + 1

\* the executor has max_workers threads, each runs one task at a time
WorkerFree == Cardinality(Running) < max_workers

\* a worker thread that requests the URL of its work item twice
StartFetchTwice ==
  /\ pc \in {"collect", "abort"}
  /\ InState("pending") # {}
  /\ WorkerFree
  /\ futures' = [futures EXCEPT ![NextQueued].state = "running"]
  /\ requests' = Append(Append(requests, tile_urls[NextQueued]),
                        tile_urls[NextQueued])
  /\ UNCHANGED << max_workers, tile_sources, idx, pc, metadata, width,
                  height, tile_size, tiles_info, base_url, num_tiles, ty, tx,
                  tile_urls, tile_positions, tile_regions, output_image,
                  yielded, tiles_downloaded, tiles_failed, files, returned >>

\* a worker thread takes the next work item and calls download_tile(url):
\* session.get(url, timeout=30)
StartFetch ==
  /\ pc \in {"collect", "abort"}
  /\ InState("pending") # {}
  /\ WorkerFree
  /\ futures' = [futures EXCEPT ![NextQueued].state = "running"]
  /\ requests' = Append(requests, tile_urls[NextQueued])
  /\ UNCHANGED << max_workers, tile_sources, idx, pc, metadata, width,
                  height, tile_size, tiles_info, base_url, num_tiles, ty, tx,
                  tile_urls, tile_positions, tile_regions, output_image,
                  yielded, tiles_downloaded, tiles_failed, files, returned >>

\* what download_tile can return for task t: None when the request fails,
\* times out or Image.open rejects the payload; otherwise the raster that
\* Image.open made of the payload, whatever its size, decodable or not
TileResults(t) ==
  {None}
    \cup { Raster(t, tile_regions[t][3] + e, tile_regions[t][4] + e, TRUE) :
             e \in RasterExcess }
    \cup { Raster(t, tile_regions[t][3], tile_regions[t][4], FALSE) }

\* a download_tile that pastes the raster it fetched into the canvas itself
FinishFetchAndPaste(t) ==
  /\ t \in Running
  /\ \E r \in TileResults(t) :
       /\ futures' = [futures EXCEPT ![t] = [state |-> "finished", result |-> r]]
       /\ IF r.img /\ r.intact
            THEN /\ output_image' = Paste(output_image, r, tile_positions[t])
                 /\ tiles_downloaded' = tiles_downloaded + 1
            ELSE UNCHANGED << output_image, tiles_downloaded >>
  /\ UNCHANGED << max_workers, tile_sources, idx, pc, requests, metadata,
                  width, height, tile_size, tiles_info, base_url, num_tiles,
                  ty, tx, tile_urls, tile_positions, tile_regions,
                  yielded, tiles_failed, files, returned >>

\* download_tile returns and the future is finished
FinishFetch(t) ==
  /\ t \in Running
  /\ \E r \in TileResults(t) :
       futures' = [futures EXCEPT ![t] = [state |-> "finished", result |-> r]]
  /\ UNCHANGED << max_workers, tile_sources, idx, pc, requests, metadata,
                  width, height, tile_size, tiles_info, base_url, num_tiles,
                  ty, tx, tile_urls, tile_positions, tile_regions,
                  output_image, yielded, tiles_downloaded, tiles_failed,
                  files, returned >>

(* ---------------------- the main thread: collect ---------------------- *)

\* output_image.paste(tile_img, pos) loads tile_img first
PasteRaises(tile_img) == ~ tile_img.intact

\* a tile that is None leaves the loop as an exception does
AfterTileFailFast(tile_img) ==
  IF ~ tile_img.img \/ PasteRaises(tile_img) THEN "abort" ELSE "collect"

\* where the main thread is after the loop body has handled tile_img: an
\* exception of paste leaves the loop, a tile that is None does not
AfterTile(tile_img) ==
  IF tile_img.img /\ PasteRaises(tile_img) THEN "abort" ELSE "collect"

\* one iteration of: for future in as_completed(future_to_pos)
Consume(t) ==
  /\ pc = "collect"
  /\ t \in InState("finished") \ yielded
  /\ yielded' = yielded \cup {t}
  /\ LET tile_img == futures[t].result
         pos == tile_positions[t]
     IN
     /\ pc' = AfterTile(tile_img)
     /\ IF tile_img.img
          THEN IF PasteRaises(tile_img)
                 THEN UNCHANGED << output_image, tiles_downloaded,
                                   tiles_failed >>
                 ELSE /\ output_image' = Paste(output_image, tile_img, pos)
                      /\ tiles_downloaded' = tiles_downloaded + 1
                      /\ UNCHANGED tiles_failed
          ELSE /\ tiles_failed' = tiles_failed + 1
               /\ UNCHANGED << output_image, tiles_downloaded >>
  /\ UNCHANGED << max_workers, tile_sources, idx, requests, metadata, width,
                  height, tile_size, tiles_info, base_url, num_tiles, ty, tx,
                  tile_urls, tile_positions, tile_regions, futures, files,
                  returned >>

\* the loop over as_completed left after its first iteration
ExhaustedEarly == yielded # {}

\* as_completed has yielded every future it was given
Exhausted == yielded = Tasks

\* as_completed is exhausted; the executor is shut down (all its futures
\* are finished); output_image.save(output_path, 'PNG'); return True
SaveComposite ==
  /\ pc = "collect"
  /\ Exhausted
  /\ files' = Save(files, OutputFilename(idx), output_image)
  /\ Return(TRUE)
  /\ UNCHANGED << max_workers, tile_sources, idx, requests >>
  /\ UNCHANGED image_vars

\* an exception leaves the with block: executor.shutdown(wait=True) lets the
\* queued and the running fetches end; except Exception: return False
AbortReturn ==
  /\ pc = "abort"
  /\ InState("finished") = Tasks
  /\ Return(FALSE)
  /\ UNCHANGED << max_workers, tile_sources, idx, requests, files >>
  /\ UNCHANGED image_vars

Next ==
  \/ FetchMetadata
  \/ Decide
  \/ FetchFull
  \/ GridStep
  \/ Submit
  \/ StartFetch
  \/ \E t \in Tasks : FinishFetch(t)
  \/ \E t \in Tasks : Consume(t)
  \/ SaveComposite
  \/ AbortReturn
  \/ Completed

Spec == Init /\ [][Next]_vars

(* ------------------------ the grid loop alone ------------------------ *)

\* descriptors of tiled images for the grid loop
GridMetadatas ==
  { [width |-> 5000, height |-> 3000, tiles |-> << [width |-> 1000] >>],
    [width |-> 5300, height |-> 3000, tiles |-> << [width |-> 1000] >>],
    [width |-> 2500, height |-> 2100, tiles |-> << [width |-> 2000] >>],
    [width |-> 2001, height |-> 1000, tiles |-> << [width |-> 1000] >>],
    [width |-> 1000, height |-> 2001,
       tiles |-> << [width |-> 2000], [width |-> 512] >>],
    [width |-> 1000, height |-> 2001, tiles |-> << [scaleFactors |-> 1] >>],
    [width |-> 2048, height |-> 2, tiles |-> << [width |-> 512] >>],
    [width |-> 3, height |-> 2002, tiles |-> << [width |-> 500] >>],
    [width |-> 4000, height |-> 2500, tiles |-> << [width |-> 512] >>],
    [width |-> 2500, height |-> 2100, tiles |-> << [width |-> 4096] >>],
    [width |-> 2001, height |-> 2001, tiles |-> << [width |-> 667] >>],
    [width |-> 2500, height |-> 2100, tiles |-> << [width |-> 0 - 2000] >>] }

\* download_and_composite_image(InfoUrl(1), ...) once the server has
\* answered the info.json request with one of these descriptors
GridInit ==
  /\ max_workers = DefaultWorkers
  /\ tile_sources = << InfoUrl(1) >>
  /\ idx = 1
  /\ pc = "decide"
  /\ requests = << InfoUrl(1) >>
  /\ metadata \in GridMetadatas
  /\ width = 0 /\ height = 0 /\ tile_size = 0
  /\ tiles_info = << >> /\ base_url = << >>
  /\ num_tiles = <<0, 0>> /\ ty = 0 /\ tx = 0
  /\ tile_urls = << >> /\ tile_positions = << >> /\ tile_regions = << >>
  /\ output_image = NoImage
  /\ futures = << >> /\ yielded = {}
  /\ tiles_downloaded = 0 /\ tiles_failed = 0
  /\ files = EmptyDict
  /\ returned = << >>

GridNext == Decide \/ GridStep

\* the planning of the tiles, up to the end of the grid loops
GridSpec == GridInit /\ [][GridNext]_vars

\* process_url on a page of one or two manifests
FairInit == Init /\ Len(tile_sources) <= 2

\* every thread of the program keeps running: a fetch ends (its request
\* has a timeout), a free worker takes the next task, the main thread goes on
FairSpec == FairInit /\ [][Next]_vars /\ WF_vars(Next)

(* ============================== claims =============================== *)

\* the info.json is an image descriptor: width > 0, height > 0, and the
\* tile size it declares, if it declares one, is > 0
ValidDescriptor(md) ==
  /\ "width" \in DOMAIN md /\ "height" \in DOMAIN md
  /\ md.width > 0 /\ md.height > 0
  /\ ("tiles" \in DOMAIN md /\ md.tiles # << >> /\ "width" \in DOMAIN md.tiles[1])
       => md.tiles[1].width > 0

\* the descriptor has no tile configuration: 'tiles' absent or an empty list
NoTileConfig(md) == "tiles" \notin DOMAIN md \/ md.tiles = << >>

\* download_and_composite_image has ended for image idx
ImageEnded == idx >= 1 /\ Len(returned) = idx

TheInfoUrl == tile_sources[idx]
TheFullUrl == FullUrl(BaseUrl(TheInfoUrl))

\* the requests made for image idx apart from the one for its info.json
ImageRequests == SubSeq(requests, 2, Len(requests))

FullRequests == { i \in DOMAIN ImageRequests : ImageRequests[i] = TheFullUrl }
TileRequests == { i \in DOMAIN ImageRequests : ImageRequests[i] # TheFullUrl }

\* the tiled strategy was taken: the canvas of the image was allocated
TiledChosen ==
  /\ "width" \in DOMAIN metadata /\ "height" \in DOMAIN metadata
  /\ output_image # NoImage
  /\ output_image.size = <<metadata.width, metadata.height>>

\* C1: for every descriptor the full-image strategy is chosen (exactly one
\* request, to {base}/full/full/0/default.png, and no tile request) if and
\* only if the descriptor has no tile configuration ('tiles' absent or an
\* empty list) or width <= 2000 and height <= 2000; in every other case the
\* tiled strategy is chosen and no full-image request is made.
C1_StrategyChoice ==
  (idx >= 1 /\ ValidDescriptor(metadata)) =>
    IF NoTileConfig(metadata)
       \/ (metadata.width <= 2000 /\ metadata.height <= 2000)
    THEN /\ TileRequests = {}
         /\ Cardinality(FullRequests) <= 1
         /\ ~ TiledChosen
         /\ ImageEnded => ImageRequests = << TheFullUrl >>
    ELSE /\ FullRequests = {}
         /\ ImageEnded => TiledChosen

\* C1 where the code agrees with it: a descriptor whose 'tiles' is not an
\* empty list
C1_ExceptEmptyTiles ==
  ("tiles" \in DOMAIN metadata => metadata.tiles # << >>) => C1_StrategyChoice

(* ------------------------------ the plan ----------------------------- *)

\* the grid loops of a valid descriptor have ended
PlanComplete ==
  /\ pc = "grid" /\ GridDone
  /\ ValidDescriptor(metadata)

\* pixel <<px, py>> lies in the rectangle r = <<x, y, w, h>>
InRect(p, r) ==
  /\ r[1] <= p[1] /\ p[1] < r[1] + r[3]
  /\ r[2] <= p[2] /\ p[2] < r[2] + r[4]

PlannedRects == { tile_regions[i] : i \in DOMAIN tile_regions }

\* One pixel of every block of the canvas when it is cut at every left and
\* right (top and bottom) edge of a planned rectangle: whether a pixel lies
\* in a planned rectangle depends on its block only.  The pixels of the
\* last column and of the last row are added.
EdgesX == {0, width - 1} \cup { r[1] : r \in PlannedRects }
            \cup { r[1] + r[3] : r \in PlannedRects }
EdgesY == {0, height - 1} \cup { r[2] : r \in PlannedRects }
            \cup { r[2] + r[4] : r \in PlannedRects }
CanvasPixels ==
  { p \in EdgesX \X EdgesY :
      0 <= p[1] /\ p[1] < width /\ 0 <= p[2] /\ p[2] < height }

\* C2: for width > 0, height > 0 and tileSize > 0 the rectangles planned by
\* the grid loop exactly tile [0,width) x [0,height): no planned rectangle
\* extends outside the canvas, no pixel lies in two planned rectangles, and
\* when the loop has ended every pixel lies in exactly one of them.
C2_ExactTiling ==
  (pc = "grid" /\ ValidDescriptor(metadata)) =>
    /\ \A i \in DOMAIN tile_regions :
         LET r == tile_regions[i] IN
           /\ r[3] > 0 /\ r[4] > 0
           /\ 0 <= r[1] /\ r[1] + r[3] <= width
           /\ 0 <= r[2] /\ r[2] + r[4] <= height
    /\ \A p \in CanvasPixels :
         Cardinality({ i \in DOMAIN tile_regions : InRect(p, tile_regions[i]) })
           <= 1
    /\ GridDone =>
         \A p \in CanvasPixels :
           Cardinality({ i \in DOMAIN tile_regions :
                           InRect(p, tile_regions[i]) }) = 1

\* a plan of several rows and several columns whose last column and last
\* row are clipped has been completed
C2_Witness ==
  /\ PlanComplete
  /\ num_tiles[1] >= 2 /\ num_tiles[2] >= 2
  /\ width % tile_size # 0 /\ height % tile_size # 0
  /\ Len(tile_regions) >= 4

\* ceil(a / b) for a > 0, b > 0: the least n with n * b >= a
LeastCover(a, b) == CHOOSE n \in 1 .. a : n * b >= a /\ (n - 1) * b < a

\* the place of cell (cx, cy) in a row-major enumeration of nx columns
RowMajor(cx, cy, nx) == cy * nx + cx + 1

\* C3: in the tiled case the plan has exactly nx * ny requests with
\* nx = ceil(width / tileSize), ny = ceil(height / tileSize), enumerated
\* row-major; cell (tx, ty) has offset (tx * tileSize, ty * tileSize),
\* regionWidth = min(tileSize, width - offsetX) and regionHeight =
\* min(tileSize, height - offsetY), and its URL addresses that region.
\* 5000 x 3000 with tileSize 1000 gives 15 tiles, all of width 1000; width
\* 5300 gives a last column of regionWidth 300.
C3_GridPlan ==
  PlanComplete =>
    LET nx == LeastCover(width, tile_size)
        ny == LeastCover(height, tile_size)
    IN
    /\ Len(tile_urls) = nx * ny
    /\ Len(tile_positions) = nx * ny
    /\ Len(tile_regions) = nx * ny
    /\ \A cy \in Range(ny) : \A cx \in Range(nx) :
         LET i == RowMajor(cx, cy, nx)
             ox == cx * tile_size
             oy == cy * tile_size
             rw == IF tile_size <= width - ox THEN tile_size ELSE width - ox
             rh == IF tile_size <= height - oy THEN tile_size ELSE height - oy
         IN
         /\ tile_positions[i] = <<ox, oy>>
         /\ tile_regions[i] = <<ox, oy, rw, rh>>
         /\ tile_urls[i] = BaseUrl(TheInfoUrl)
                             \o << Region(ox, oy, rw, rh), "full", "0",
                                   "default.jpg" >>
    /\ (width = 5000 /\ height = 3000 /\ tile_size = 1000) =>
         /\ Len(tile_regions) = 15
         /\ \A i \in DOMAIN tile_regions : tile_regions[i][3] = 1000
    /\ (width = 5300 /\ height = 3000 /\ tile_size = 1000) =>
         /\ Len(tile_regions) = 18
         /\ \A i \in DOMAIN tile_regions :
              tile_regions[i][1] = 5000 => tile_regions[i][3] = 300
         /\ \E i \in DOMAIN tile_regions : tile_regions[i][1] = 5000

\* the plan of the 5300 x 3000 image with tiles of 1000 has been completed
C3_Witness ==
  /\ PlanComplete
  /\ width = 5300 /\ height = 3000 /\ tile_size = 1000
  /\ tile_regions[18] = <<5000, 2000, 300, 1000>>

(* ----------------------------- the canvas ---------------------------- *)

\* the tiled run of image idx has handled every tile and is about to save
\* the canvas, or has saved it and returned True
Composited ==
  \/ pc = "collect" /\ Exhausted
  \/ ImageEnded /\ returned[idx] /\ TiledChosen

\* the tile that the loop over as_completed handles in this step
Handled(t) == pc = "collect" /\ t \notin yielded /\ t \in yielded'

\* C4: every write of a successfully fetched tile into the canvas changes
\* only pixels inside that tile's own planned rectangle and leaves every
\* other pixel unchanged, whatever raster the server returned for the tile.
C4_WriteInOwnRect ==
  [][ \A t \in Tasks :
        Handled(t) =>
          \A b \in DOMAIN output_image.px :
            output_image'.px[b] # output_image.px[b]
              => InRect(b, tile_regions[t]) ]_vars

\* the tiles whose download_tile returned None, and those it returned a
\* raster for
FailedTiles == { t \in Tasks : futures[t].state = "finished"
                                 /\ ~ futures[t].result.img }
FetchedTiles == { t \in Tasks : futures[t].state = "finished"
                                  /\ futures[t].result.img }

RECURSIVE PasteInPlanOrder(_)
\* the canvas after the rasters of the tiles 1 .. k were pasted in the order
\* of the plan
PasteInPlanOrder(k) ==
  IF k = 0 THEN NewImage(width, height, tile_size)
  ELSE IF futures[k].result.img
         THEN Paste(PasteInPlanOrder(k - 1), futures[k].result,
                    tile_positions[k])
         ELSE PasteInPlanOrder(k - 1)

\* C5: for a fixed plan and a fixed outcome per tile the final canvas and
\* the success/failure counts are the same for every order in which the
\* outcomes are consumed.  The order of the plan is one of these orders, so
\* this says that every run ends with the canvas and the counts of the run
\* that consumes the same outcomes in the order of the plan.
C5_OrderIndependent ==
  Composited =>
    /\ output_image = PasteInPlanOrder(Len(tile_urls))
    /\ tiles_downloaded = Cardinality(FetchedTiles)
    /\ tiles_failed = Cardinality(FailedTiles)

\* the tile whose planned rectangle holds the pixel (0 when there is none)
OwnerOf(b) ==
  IF \E t \in DOMAIN tile_regions : InRect(b, tile_regions[t])
    THEN CHOOSE t \in DOMAIN tile_regions : InRect(b, tile_regions[t])
    ELSE 0

\* the canvas when every tile is fetched and shown in its own rectangle
AllSuccessCanvas ==
  [b \in DOMAIN output_image.px |->
     <<OwnerOf(b), b[1] - tile_positions[OwnerOf(b)][1],
                   b[2] - tile_positions[OwnerOf(b)][2]>>]

\* C6: for every set F of tiles whose fetch fails, when the tiled run
\* finishes the canvas equals the canvas of the all-success run except that
\* the rectangles of the tiles in F are entirely white; tiles_failed = |F|,
\* tiles_downloaded is the number of the other tiles, and the two add up to
\* the number of planned tiles.
C6_PartialFailure ==
  (Composited /\ ValidDescriptor(metadata)) =>
    /\ \A b \in DOMAIN output_image.px :
         output_image.px[b] =
           IF OwnerOf(b) \in FailedTiles THEN White ELSE AllSuccessCanvas[b]
    /\ tiles_failed = Cardinality(FailedTiles)
    /\ tiles_downloaded = Len(tile_urls) - Cardinality(FailedTiles)
    /\ tiles_downloaded + tiles_failed = Len(tile_urls)

\* the rasters that were fetched have the size of the region requested
ServerConforms ==
  \A t \in FetchedTiles :
    futures[t].result.size = <<tile_regions[t][3], tile_regions[t][4]>>

\* C5 and C6 where the code agrees with them
C6_WhenServerConforms ==
  ServerConforms => (C5_OrderIndependent /\ C6_PartialFailure)

(* ------------------------ the end of a tiled run --------------------- *)

\* every task that was submitted has run to its end
AllFetched == InState("finished") = Tasks

\* the tiled run of image idx has ended, with the canvas saved
SavedTiled == ImageEnded /\ TiledChosen /\ returned[idx]

\* C7: in the tiled case the canvas is saved and
\* download_and_composite_image returns only after every dispatched tile
\* request has produced an outcome and every successful outcome has been
\* written into the canvas; no tile fetch is in flight and no canvas write
\* happens at or after the moment the canvas is saved.
C7_SaveAfterAllTiles ==
  /\ [] ( (ImageEnded /\ TiledChosen) => (AllFetched /\ Running = {}) )
  /\ [] ( SavedTiled =>
            /\ yielded = Tasks
            /\ Tasks = DOMAIN tile_urls
            /\ tiles_downloaded = Cardinality(FetchedTiles)
            /\ OutputFilename(idx) \in DOMAIN files )
  /\ [][ (files' # files /\ pc = "collect") =>
            /\ AllFetched /\ yielded = Tasks
            /\ output_image' = output_image ]_vars
  /\ [][ (ImageEnded /\ idx' = idx) =>
            (output_image' = output_image /\ futures' = futures) ]_vars

\* a canvas of several tiles, one of them written last, has been saved
C7_Witness ==
  /\ SavedTiled
  /\ Len(tile_urls) >= 3
  /\ tiles_downloaded >= 2

\* a raster was fetched that cannot be decoded when it is loaded
SomeUndecodable == \E t \in FetchedTiles : ~ futures[t].result.intact

\* the URLs requested for image idx
Requested == { ImageRequests[i] : i \in DOMAIN ImageRequests }

\* C8: every fetch ends and max_workers >= 1, so the tiled run ends; a tile
\* that fails or times out (download_tile returns None) neither cancels nor
\* prevents the fetch and the write of any other tile: every other planned
\* tile is still attempted and, if it succeeds, written, and the run ends
\* with n - f successes and f failures (14 and 1 for 15 tiles, one failed).
C8_FailureIsolated ==
  /\ (pc = "collect") ~> ImageEnded
  /\ [] ( (ImageEnded /\ TiledChosen /\ max_workers >= 1) =>
            /\ Tasks = DOMAIN tile_urls
            /\ AllFetched
            /\ \A t \in Tasks : tile_urls[t] \in Requested )
  /\ [] ( (ImageEnded /\ TiledChosen /\ max_workers >= 1
             /\ ~ SomeUndecodable) =>
            /\ returned[idx]
            /\ yielded = Tasks
            /\ tiles_failed = Cardinality(FailedTiles)
            /\ tiles_downloaded = Len(tile_urls) - Cardinality(FailedTiles) )
  /\ [][ \A t \in Tasks :
           (Handled(t) /\ ~ futures[t].result.img) =>
             /\ pc' = "collect"
             /\ futures' = futures
             /\ output_image' = output_image
             /\ tiles_downloaded' = tiles_downloaded ]_vars

\* a run of three tiles, one of which failed, has ended with two successes
\* and one failure
C8_Witness ==
  /\ SavedTiled
  /\ Len(tile_urls) = 3
  /\ tiles_failed = 1 /\ tiles_downloaded = 2
  /\ FailedTiles = {1}

\* the grid loops of image idx have ended with at least one tile planned
Planned == pc = "grid" /\ GridDone /\ tile_urls # << >>

\* C9 as stated: at every moment of a tiled run at most max_workers tile
\* fetches are in flight, however many tiles the plan contains; all planned
\* tiles are nevertheless submitted and each is run.
C9_AsStated ==
  /\ Cardinality(Running) <= max_workers
  /\ (ImageEnded /\ tile_urls # << >>) =>
       (Tasks = DOMAIN tile_urls /\ AllFetched)

\* C9, amended: for max_workers >= 1, at every moment of a tiled run at most
\* max_workers tile fetches are in flight, however many tiles the plan
\* contains, and all planned tiles are submitted and each is eventually
\* run.  For max_workers <= 0 the executor cannot be created: no tile is
\* submitted, none is in flight, and the image fails.
C9_BoundedPool ==
  /\ [] ( Cardinality(Running) <= max_workers )
  /\ [] ( (max_workers >= 1 /\ ImageEnded /\ tile_urls # << >>) =>
            (Tasks = DOMAIN tile_urls /\ AllFetched) )
  /\ (max_workers >= 1 /\ Planned) ~> (Tasks = DOMAIN tile_urls /\ AllFetched)
  /\ [] ( (max_workers <= 0 /\ ImageEnded /\ TiledChosen) =>
            (Tasks = {} /\ ~ returned[idx]) )

\* every worker thread is busy with a fetch while a planned tile waits
C9_Witness ==
  /\ max_workers >= 1
  /\ Cardinality(Running) = max_workers
  /\ InState("pending") # {}

\* C10: no per-tile error (network or HTTP failure, timeout, or a corrupt or
\* undecodable tile payload) makes the processing of a tiled image fail:
\* the canvas is still saved and download_and_composite_image returns True,
\* also when every tile fails (the saved canvas is then entirely white).
C10_TileErrorsNotFatal ==
  (ImageEnded /\ Tasks # {}) =>
    /\ returned[idx]
    /\ OutputFilename(idx) \in DOMAIN files
    /\ files[OutputFilename(idx)] = <<width, height>>
    /\ (\A t \in Tasks : ~ futures[t].result.img \/ ~ futures[t].result.intact)
         => \A b \in DOMAIN output_image.px : output_image.px[b] = White

\* C10 where the code agrees with it: every raster that Image.open accepted
\* can be decoded when it is pasted
C10_WhenRastersDecode ==
  ~ SomeUndecodable => C10_TileErrorsNotFatal

(* ------------------------ errors of one image ------------------------ *)

\* the file of image idx is in output_dir
FileSaved == OutputFilename(idx) \in DOMAIN files

\* a statement of the metadata stage raised: fetch_iiif_metadata
\* (no descriptor), metadata['width'], metadata['height'], or the [0] of
\* metadata.get('tiles', [{}])
MetadataError ==
  \/ metadata = EmptyDict
  \/ "width" \notin DOMAIN metadata
  \/ "height" \notin DOMAIN metadata
  \/ ("tiles" \in DOMAIN metadata /\ metadata.tiles = << >>)

\* the full image was requested and download_and_composite_image failed
FullImageError == FullRequests # {} /\ ~ returned[idx]

\* the loop of process_url has ended
BatchDone == pc = "completed"

\* C11: a metadata error or a full-image fetch/decode error aborts the
\* current image only: nothing is saved for that image, no tile request is
\* dispatched for it (no fallback to tiles), download_and_composite_image
\* returns False, and process_url goes on with every remaining image of the
\* batch, in order, until the batch is done; the run is not terminated.
C11_ErrorAbortsImageOnly ==
  /\ [] ( (ImageEnded /\ (MetadataError \/ FullImageError)) =>
            /\ ~ returned[idx]
            /\ ~ FileSaved
            /\ TileRequests = {} /\ Tasks = {} /\ tile_urls = << >>
            /\ \A k \in 1 .. (idx - 1) :
                 returned[k] <=> OutputFilename(k) \in DOMAIN files )
  /\ [] ( FullRequests # {} => (TileRequests = {} /\ Tasks = {}) )
  /\ [][ pc = "full" => pc' = "loop" ]_vars
  /\ [][ idx' # idx =>
           /\ idx' = idx + 1
           /\ Len(returned) = idx
           /\ requests' = << tile_sources[idx'] >>
           /\ files' = files ]_vars
  /\ (ImageEnded /\ (MetadataError \/ FullImageError)
        /\ idx < Len(tile_sources))
       ~> (idx = Len(tile_sources) /\ ImageEnded)
  /\ <> BatchDone
  /\ [] ( BatchDone => Len(returned) = Len(tile_sources) )

\* a batch of two is done: the full-image fetch of the second image failed
\* after the first image had failed, and nothing was saved
C11_Witness ==
  /\ BatchDone
  /\ Len(tile_sources) = 2 /\ idx = 2
  /\ FullImageError
  /\ returned = << FALSE, FALSE >>
  /\ files = EmptyDict

(* --------------------- validation of the descriptor ------------------ *)

\* a request for the full image or for a tile of image idx was issued
RequestIssued == ImageRequests # << >>

\* a fetch plan was built: the full-image URL was formed (line 196), or the
\* grid was computed and the canvas allocated (lines 212-218)
PlanBuilt ==
  idx >= 1 /\ (pc = "full" \/ FullRequests # {} \/ output_image # NoImage)

\* C12: whenever the metadata lacks width or height, or gives a
\* non-positive width or height, the image fails at the metadata stage: no
\* full-image or tile request is issued and nothing is saved.  Equivalently,
\* in every state where a fetch plan is built or a request is issued, the
\* descriptor satisfies width > 0, height > 0 and tileSize > 0.
C12_DescriptorValidated ==
  /\ (idx >= 1 /\ ( "width" \notin DOMAIN metadata
                    \/ "height" \notin DOMAIN metadata
                    \/ metadata.width <= 0 \/ metadata.height <= 0 )) =>
       /\ ~ RequestIssued
       /\ ~ PlanBuilt
       /\ ~ FileSaved
       /\ ImageEnded => ~ returned[idx]
  /\ (PlanBuilt \/ RequestIssued \/ (idx >= 1 /\ FileSaved)) =>
       /\ "width" \in DOMAIN metadata /\ "height" \in DOMAIN metadata
       /\ metadata.width > 0 /\ metadata.height > 0
       /\ width > 0 /\ height > 0 /\ tile_size > 0

\* C12 where the code agrees with it: a descriptor without width or height
\* fails at the metadata stage (KeyError)
C12_WhenKeysMissing ==
  (idx >= 1 /\ ( "width" \notin DOMAIN metadata
                 \/ "height" \notin DOMAIN metadata )) =>
    /\ ~ RequestIssued
    /\ ~ PlanBuilt
    /\ ~ FileSaved
    /\ ImageEnded => ~ returned[idx]

(* ------------------------ the raster that is saved ------------------- *)

\* the size of the raster in the file of image idx
SavedSize == files[OutputFilename(idx)]

\* C13: every raster that is saved for an image has exactly the
\* descriptor's dimensions width x height, in the tiled case and in the
\* full-image case alike; in the full-image case also when the server
\* returns a raster whose size differs from the descriptor (the mismatch is
\* not a failure: the image is saved, with the descriptor's dimensions).
C13_SavedSizeExact ==
  (ImageEnded /\ FileSaved) =>
    /\ SavedSize = << metadata.width, metadata.height >>
    /\ returned[idx]

\* C13 where the code agrees with it: the tiled case
C13_TiledSizeExact ==
  (ImageEnded /\ FileSaved /\ TiledChosen) =>
    /\ SavedSize = << metadata.width, metadata.height >>
    /\ returned[idx]

(* ------------------------ the outcome of an image -------------------- *)

\* if not success: logger.warning(f"Skipping image {idx} due to errors"):
\* the images process_url has reported as skipped.  The only return False
\* of download_and_composite_image follows its logger.error (line 273).
SkippingWarnings == { k \in DOMAIN returned : ~ returned[k] }

\* the images whose file is in output_dir
SavedImages == { k \in 1 .. Len(tile_sources) : OutputFilename(k) \in DOMAIN files }

\* C14: for every manifest handed to download_and_composite_image the
\* processing ends, in exactly one of two outcomes: a raster was saved and
\* True is returned, or a failure was reported (False returned, 'Skipping
\* image' warning) and no raster was saved; never neither, and never success
\* without a saved raster.
C14_SavedOrReported ==
  /\ (idx >= 1 /\ ~ ImageEnded) ~> ImageEnded
  /\ [] ( \A k \in DOMAIN returned :
            /\ returned[k] <=> k \in SavedImages
            /\ ~ returned[k] <=> k \in SkippingWarnings
            /\ k \in SavedImages \/ k \in SkippingWarnings
            /\ ~ (k \in SavedImages /\ k \in SkippingWarnings) )
  /\ [] ( SavedImages \subseteq DOMAIN returned )
  /\ [][ returned' # returned =>
           /\ Len(returned) = idx' - 1
           /\ returned' = Append(returned, returned'[idx']) ]_vars
  /\ [][ files' # files =>
           /\ returned' = Append(returned, TRUE)
           /\ idx' = idx
           /\ OutputFilename(idx) \notin DOMAIN files
           /\ DOMAIN files' = DOMAIN files \cup { OutputFilename(idx) } ]_vars

\* a batch of two is done: the first image was saved, the second was
\* reported as skipped and has no file
C14_Witness ==
  /\ BatchDone
  /\ returned = << TRUE, FALSE >>
  /\ SavedImages = {1}
  /\ SkippingWarnings = {2}

(* ---------------------------- the tile size -------------------------- *)

\* the first entry of the descriptor's tile configuration
FirstTilesEntry == metadata.tiles[1]

\* the tile size the grid of image idx was built with: the grid counts of
\* line 212 and every offset and extent of the grid loop come from it
GridBuiltWith(ts) ==
  /\ num_tiles = << LeastCover(width, ts), LeastCover(height, ts) >>
  /\ \A i \in DOMAIN tile_regions :
       /\ tile_positions[i][1] % ts = 0 /\ tile_positions[i][2] % ts = 0
       /\ tile_regions[i][3] = (IF ts <= width - tile_positions[i][1]
                                  THEN ts ELSE width - tile_positions[i][1])
       /\ tile_regions[i][4] = (IF ts <= height - tile_positions[i][2]
                                  THEN ts ELSE height - tile_positions[i][2])
  /\ (GridDone /\ LeastCover(width, ts) >= 2) => tile_positions[2] = << ts, 0 >>

\* C15: when the descriptor has a tile configuration whose first entry
\* declares no width, the tile size used for the grid is 256; when the first
\* entry declares a width, exactly that width is used as the tile size
\* (later entries are ignored).
C15_TileSizeUsed ==
  (pc = "grid" /\ ValidDescriptor(metadata)) =>
    IF "width" \in DOMAIN FirstTilesEntry
      THEN tile_size = FirstTilesEntry.width
           /\ GridBuiltWith(FirstTilesEntry.width)
      ELSE tile_size = 256 /\ GridBuiltWith(256)

\* the grid of a 1000 x 2001 image whose first tiles entry declares no
\* width is complete: 4 x 8 tiles of 256
C15_Witness ==
  /\ PlanComplete
  /\ "width" \notin DOMAIN FirstTilesEntry
  /\ num_tiles = << 4, 8 >>
  /\ Len(tile_regions) = 32
  /\ tile_regions[32] = << 768, 1792, 232, 209 >>

(* ----------------------- who writes the canvas ----------------------- *)

\* a step of a worker thread of the executor: it takes a queued task or
\* download_tile returns (the futures change while the main thread stays
\* where it is, in the with block)
WorkerStep == pc \in {"collect", "abort"} /\ pc' = pc /\ futures' # futures

\* a step of the main thread inside the loop over as_completed
MainStep(t) == Handled(t) /\ yielded' = yielded \cup {t} /\ futures' = futures

\* the canvas of image idx or one of its counters is modified
CanvasOrCounterWritten ==
  /\ pc \in {"collect", "abort"}
  /\ \/ output_image' # output_image
     \/ tiles_downloaded' # tiles_downloaded
     \/ tiles_failed' # tiles_failed

\* C16: all canvas writes of a tiled execution are performed by the single
\* coordinating thread that consumes the completed outcomes; a worker
\* thread only fetches and returns a raster and never modifies the canvas or
\* the counters, so at most one canvas write is in progress at any time and
\* tiles_downloaded / tiles_failed are never updated concurrently.
C16_SingleWriter ==
  /\ [][ WorkerStep =>
           /\ output_image' = output_image
           /\ tiles_downloaded' = tiles_downloaded
           /\ tiles_failed' = tiles_failed
           /\ yielded' = yielded
           /\ files' = files ]_vars
  /\ [][ CanvasOrCounterWritten =>
           /\ pc = "collect"
           /\ \E t \in Tasks :
                /\ MainStep(t)
                /\ futures[t].state = "finished"
                /\ \A u \in Tasks \ {t} : ~ Handled(u)
                /\ \/ /\ output_image' =
                           Paste(output_image, futures[t].result,
                                 tile_positions[t])
                      /\ tiles_downloaded' = tiles_downloaded + 1
                      /\ tiles_failed' = tiles_failed
                   \/ /\ output_image' = output_image
                      /\ tiles_downloaded' = tiles_downloaded
                      /\ tiles_failed' = tiles_failed + 1 ]_vars
  /\ [] ( tiles_downloaded + tiles_failed <= Cardinality(yielded) )

\* the main thread has written a tile into the canvas while a worker
\* thread is in the middle of a fetch
C16_Witness ==
  /\ pc = "collect"
  /\ tiles_downloaded >= 1
  /\ Running # {}
  /\ max_workers >= 2

(* ------------------- one fetch per tile, at its offset --------------- *)

\* how many requests for the URL of tile t were issued for image idx
FetchesOf(t) ==
  Cardinality({ i \in DOMAIN ImageRequests : ImageRequests[i] = tile_urls[t] })

\* the URL of tile t addresses the region planned for tile t
UrlOfOwnRegion(t) ==
  LET r == tile_regions[t] IN
    tile_urls[t] = BaseUrl(TheInfoUrl)
                     \o << Region(r[1], r[2], r[3], r[4]), "full", "0",
                           "default.jpg" >>

\* the tiles that were planned
PlannedTiles == DOMAIN tile_urls

\* the tiles whose fetch has begun
Started == Tasks \ InState("pending")

\* the tiled execution of image idx has ended
TiledEnded == ImageEnded /\ TiledChosen

\* the step in which tile t is handled writes the raster fetched for tile t
\* at the offset of tile t
WrittenAtOwnOffset(t) ==
  LET r == tile_regions[t] IN
    /\ futures[t].result.src = t
    /\ tile_positions[t] = << r[1], r[2] >>
    /\ output_image' = Paste(output_image, futures[t].result, << r[1], r[2] >>)
    /\ \A u \in PlannedTiles \ {t} : tile_positions[u] # tile_positions[t]

\* C17 as stated: in a tiled execution exactly one fetch is issued for each
\* planned tile (no retry after a failure, no duplicate, none skipped), for
\* the URL of the tile's own region.
C17_AsStated ==
  TiledEnded =>
    /\ Len(ImageRequests) = Len(tile_urls)
    /\ \A t \in PlannedTiles : FetchesOf(t) = 1 /\ UrlOfOwnRegion(t)

\* C17, amended: in a tiled execution with max_workers >= 1 exactly one
\* fetch is issued for each planned tile (no retry after a failure, no
\* duplicate, none skipped), its URL addresses the tile's own region
\* {base}/{x},{y},{w},{h}/full/0/default.jpg, and an outcome that is written
\* is written at that same tile's offset (x, y) and at no other tile's
\* offset.  With max_workers <= 0 no fetch is issued for any planned tile.
C17_OneFetchOwnOffset ==
  /\ [] ( (TiledEnded /\ max_workers >= 1) =>
            /\ Len(ImageRequests) = Len(tile_urls)
            /\ \A t \in PlannedTiles : FetchesOf(t) = 1 /\ UrlOfOwnRegion(t) )
  /\ [] ( (TiledEnded /\ max_workers <= 0) => ImageRequests = << >> )
  /\ [] ( \A t \in Tasks :
            FetchesOf(t) = (IF t \in Started THEN 1 ELSE 0) )
  /\ [][ \A t \in Tasks :
           (Handled(t) /\ output_image' # output_image) =>
             WrittenAtOwnOffset(t) ]_vars
  /\ [][ (pc \in {"collect", "abort"} /\ requests' # requests) =>
           \E u \in Tasks \ Started :
             /\ requests' = Append(requests, tile_urls[u])
             /\ Started' = Started \cup {u} ]_vars

\* a tiled run of three tiles has ended with three requests, the second of
\* which failed and was not repeated
C17_Witness ==
  /\ TiledEnded
  /\ max_workers >= 1
  /\ Len(ImageRequests) = 3
  /\ FailedTiles = {2}
  /\ tiles_downloaded = 2
  /\ returned[idx]

(* ---------------------- one image after another ---------------------- *)

\* URL u is a request for image k: its info.json, its full image or one of
\* its tiles
RequestFor(u, k) ==
  LET base == BaseUrl(tile_sources[k]) IN
    /\ Len(u) > Len(base)
    /\ SubSeq(u, 1, Len(base)) = base

\* the images for which download_and_composite_image returned True
Succeeded == { k \in DOMAIN returned : returned[k] }

\* indices on both sides of every change of the width of the file name
FilenameSamples == {1, 2, 9, 10, 11, 99, 100, 101, 999, 1000, 1001}

\* C18: process_url handles the images of a batch strictly one after
\* another in manifest order: no metadata, full-image or tile request for
\* image k+1 is issued before the processing of image k has ended (saved or
\* failed, with all of image k's tile fetches finished), and image k is
\* written to its own file image_{k:03d}.png, so no two images of a batch
\* share an output file.
C18_OneImageAtATime ==
  /\ [][ requests' # requests =>
           \/ /\ idx' = idx + 1
              /\ requests' = << tile_sources[idx + 1] >>
              /\ idx >= 1 => (ImageEnded /\ AllFetched /\ Running = {})
           \/ /\ idx' = idx
              /\ ~ ImageEnded
              /\ Len(requests') = Len(requests) + 1
              /\ SubSeq(requests', 1, Len(requests)) = requests
              /\ RequestFor(requests'[Len(requests')], idx) ]_vars
  /\ [][ ImageEnded =>
           (idx' = idx => (requests' = requests /\ futures' = futures
                             /\ files' = files)) ]_vars
  /\ [] ( \A i \in DOMAIN requests : RequestFor(requests[i], idx) )
  /\ [][ files' # files =>
           /\ idx' = idx /\ ~ ImageEnded /\ ImageEnded'
           /\ DOMAIN files' = DOMAIN files \cup { OutputFilename(idx) }
           /\ \A f \in DOMAIN files : files'[f] = files[f]
           /\ idx < 10 =>
                "image_00" \o ToString(idx) \o ".png" \in DOMAIN files' ]_vars
  /\ [] ( Cardinality(DOMAIN files) = Cardinality(Succeeded) )
  /\ [] ( idx = 0 =>
            /\ \A i, j \in FilenameSamples :
                 i # j => OutputFilename(i) # OutputFilename(j)
            /\ OutputFilename(9) = "image_009.png"
            /\ OutputFilename(10) = "image_010.png"
            /\ OutputFilename(100) = "image_100.png"
            /\ OutputFilename(1000) = "image_1000.png" )

\* the second image of a batch, a tiled one, was saved after the first:
\* each image has its own file
C18_Witness ==
  /\ idx = 2
  /\ TiledEnded
  /\ Len(ImageRequests) >= 2
  /\ Succeeded = {1, 2}
  /\ DOMAIN files = { "image_001.png", "image_002.png" }

====
